---- MODULE Spec2Model ----
(***************************************************************************)
(* The dual-mode generic thermostat of                                     *)
(* custom_components/dualmode_generic/climate.py as a state machine.       *)
(*                                                                         *)
(* Temperatures are integers (one unit = one tolerance step).  The switch  *)
(* entities live in hass.states; a service call made by the thermostat is  *)
(* kept in `calls`, one slot per switch holding the newest call, and       *)
(* reaches the switch when the host runs it, so the status the thermostat  *)
(* reads may lag the commands it has issued.  Each handler runs as one     *)
(* step; where a handler awaits a service call and then reads hass.states  *)
(* again, any of the pending calls may have run in between.  A second      *)
(* specification, SpecTasks, follows the handlers from await to await with *)
(* _temp_lock, so that handlers interleave at their service calls.         *)
(***************************************************************************)
EXTENDS Integers, Sequences, FiniteSets, TLC

\* ------------------------------------------------------------- bounds
\* sensor readings range over 1..MaxTemp
MaxTemp == 5

\* ---------------------------------------------------------- constants
\* Python's None, and "the attribute was never created" (AttributeError)
None == -1
NoAttr == -2

STATE_ON == "on"
STATE_OFF == "off"
HVAC_MODE_OFF == "off"
HVAC_MODE_HEAT == "heat"
HVAC_MODE_COOL == "cool"
HVAC_MODE_HEAT_COOL == "heat_cool"
PRESET_AWAY == "away"
PRESET_NONE == "none"
SERVICE_TURN_ON == "turn_on"
SERVICE_TURN_OFF == "turn_off"
\* no service call in flight for a switch
NoCall == "none"
SUPPORT_TARGET_TEMPERATURE == "target_temperature"
SUPPORT_TARGET_TEMPERATURE_RANGE == "target_temperature_range"
SUPPORT_PRESET_MODE == "preset_mode"

heater_entity_id == "heater"
cooler_entity_id == "cooler"
Entities == {heater_entity_id, cooler_entity_id}

Temps == 1..MaxTemp
\* values the configuration and the set_temperature service carry
TargetTemps == {3}
LowTemps == {2, 4}
HighTemps == {4}
AwayTemps == {2}
Tolerances == {0, 1}
\* a configured min_cycle_duration (its length is abstracted by `held`)
Durations == {1}
\* readings of the humidity sensor
Humidities == {5}

VARIABLES
    \* configuration, fixed by __init__
    reverse_cycle, min_cycle_duration, cold_tolerance, hot_tolerance,
    away_temp, support_flags, hvac_list,
    \* the thermostat's fields
    hvac_mode, saved_target_temp, active, cur_temp,
    target_temp, target_temp_low, target_temp_high, is_away,
    \* the host: hass.states of the two switches, service calls in flight
    states, calls,
    \* the service calls the last step issued, in order
    cmds,
    \* the handlers suspended at an await, in the order they got there
    \* (empty wherever a handler is taken as one step)
    tasks

config == <<reverse_cycle, min_cycle_duration, cold_tolerance, hot_tolerance,
            away_temp, support_flags, hvac_list>>
fields == <<hvac_mode, saved_target_temp, active, cur_temp,
            target_temp, target_temp_low, target_temp_high, is_away>>
vars == <<config, fields, states, calls, cmds, tasks>>

\* the targets set_temperature may be given: a second value on a controller
\* without reverse_cycle and min_cycle_duration
SetTargetTemps ==
    IF ~reverse_cycle /\ min_cycle_duration = None THEN {3, 4} ELSE TargetTemps

\* ------------------------------------------------------ service calls
Call(entity, service) == [entity |-> entity, service |-> service]
HeaterTurnOn == Call(heater_entity_id, SERVICE_TURN_ON)
HeaterTurnOff == Call(heater_entity_id, SERVICE_TURN_OFF)
CoolerTurnOn == Call(cooler_entity_id, SERVICE_TURN_ON)
CoolerTurnOff == Call(cooler_entity_id, SERVICE_TURN_OFF)

\* hass.services.async_call for each call of `cs` in order. Of the calls in
\* flight for one switch only the newest is kept: once all of them have run
\* the switch is in the state the newest one commands.
RECURSIVE Issue(_, _)
Issue(q, cs) ==
    IF cs = <<>> THEN q
    ELSE Issue([q EXCEPT ![Head(cs).entity] = Head(cs).service], Tail(cs))

\* the host runs a turn_on / turn_off: the switch takes the commanded
\* state, and its last_changed moves (to now) only when the state changes.
\* `held` says that last_changed lies at least min_cycle_duration back.
RunCall(st, entity, service) ==
    LET new == IF service = SERVICE_TURN_ON THEN STATE_ON ELSE STATE_OFF
    IN IF st[entity].state = new THEN st
       ELSE [st EXCEPT ![entity] = [state |-> new, held |-> FALSE]]

\* hass.states.is_state(entity, state)
IsState(st, entity, state) == st[entity].state = state

\* mutant: the state is compared and the period is not
ConditionState_NoPeriod(st, entity, req_state) ==
    st[entity].state = req_state

\* condition.state(hass, entity, req_state, for_period), for_period being
\* min_cycle_duration
ConditionState(st, entity, req_state) ==
    /\ st[entity].state = req_state
    /\ st[entity].held

\* ------------------------------------------------- the thermostat object
Self == [hvac_mode |-> hvac_mode, active |-> active, cur_temp |-> cur_temp,
         target_temp |-> target_temp, target_temp_low |-> target_temp_low,
         target_temp_high |-> target_temp_high]

IsDeviceActive(st) ==
    IsState(st, heater_entity_id, STATE_ON) \/ IsState(st, cooler_entity_id, STATE_ON)

\* mutant: the turn-on comparison made strict
IsTooColdActivate_Strict(self) ==
    IF self.hvac_mode = HVAC_MODE_HEAT_COOL
    THEN self.target_temp_low > self.cur_temp + cold_tolerance
    ELSE IF self.target_temp # NoAttr
         THEN self.target_temp > self.cur_temp + cold_tolerance
         ELSE self.target_temp_low > self.cur_temp + cold_tolerance

IsTooColdActivate(self) ==
    IF self.hvac_mode = HVAC_MODE_HEAT_COOL
    THEN self.target_temp_low >= self.cur_temp + cold_tolerance
    ELSE IF self.target_temp # NoAttr
         THEN self.target_temp >= self.cur_temp + cold_tolerance
         ELSE self.target_temp_low >= self.cur_temp + cold_tolerance

\* mutant: the midpoint of the range in place of the high setpoint
IsTooColdDeactivate_Midpoint(self) ==
    IF self.hvac_mode = HVAC_MODE_HEAT_COOL
    THEN (self.target_temp_low + self.target_temp_high) \div 2
            >= self.cur_temp + cold_tolerance
    ELSE IF self.target_temp # NoAttr
         THEN self.target_temp >= self.cur_temp + cold_tolerance
         ELSE self.target_temp_high >= self.cur_temp + cold_tolerance

IsTooHotActivate(self) ==
    IF self.hvac_mode = HVAC_MODE_HEAT_COOL
    THEN self.cur_temp >= self.target_temp_high + hot_tolerance
    ELSE IF self.target_temp # NoAttr
         THEN self.cur_temp >= self.target_temp + hot_tolerance
         ELSE self.cur_temp >= self.target_temp_high + hot_tolerance

IsTooColdDeactivate(self) ==
    IF self.hvac_mode = HVAC_MODE_HEAT_COOL
    THEN self.target_temp_high >= self.cur_temp + cold_tolerance
    ELSE IF self.target_temp # NoAttr
         THEN self.target_temp >= self.cur_temp + cold_tolerance
         ELSE self.target_temp_high >= self.cur_temp + cold_tolerance

\* mutant: the turn-off comparison without its tolerance
IsTooHotDeactivate_NoTolerance(self) ==
    IF self.hvac_mode = HVAC_MODE_HEAT_COOL
    THEN self.cur_temp >= self.target_temp_low
    ELSE IF self.target_temp # NoAttr
         THEN self.cur_temp >= self.target_temp
         ELSE self.cur_temp >= self.target_temp_low

IsTooHotDeactivate(self) ==
    IF self.hvac_mode = HVAC_MODE_HEAT_COOL
    THEN self.cur_temp >= self.target_temp_low + hot_tolerance
    ELSE IF self.target_temp # NoAttr
         THEN self.cur_temp >= self.target_temp + hot_tolerance
         ELSE self.cur_temp >= self.target_temp_low + hot_tolerance

IsWithinRangeDeactivate(self) ==
    IsTooColdDeactivate(self) /\ IsTooHotDeactivate(self)

\* mutant: armed without looking at the temperature or the setpoints
Arm_Always(self) == TRUE

\* lines 553-558: the value of _active after the arming check
Arm(self) ==
    \/ self.active
    \/ IF self.target_temp # NoAttr
       THEN None \notin {self.cur_temp, self.target_temp}
       ELSE None \notin {self.cur_temp, self.target_temp_low, self.target_temp_high}

\* lines 569-588: the pass returns at the min_cycle_duration gate
GateBlocks(self, st, time, force) ==
    /\ ~force /\ ~time
    /\ min_cycle_duration # None
    /\ LET entity == IF self.hvac_mode = HVAC_MODE_COOL
                     THEN cooler_entity_id ELSE heater_entity_id
           current_state == IF IsDeviceActive(st) THEN STATE_ON ELSE HVAC_MODE_OFF
       IN ~ConditionState(st, entity, current_state)

\* mutant: the Heat branch tests the turn-on condition of the cooler side
WhenToTurnOff_HeatByColdTest(self, st, time) ==
    IF IsTooColdDeactivate(self) /\ self.hvac_mode = HVAC_MODE_COOL
    THEN <<CoolerTurnOff>>
    ELSE IF IsTooColdDeactivate(self) /\ self.hvac_mode = HVAC_MODE_HEAT
    THEN <<HeaterTurnOff>>
    ELSE IF IsWithinRangeDeactivate(self) /\ self.hvac_mode = HVAC_MODE_HEAT_COOL
    THEN <<HeaterTurnOff, CoolerTurnOff>>
    ELSE <<>>

\* lines 590-619: an actuator is on
WhenToTurnOff(self, st, time) ==
    IF IsTooColdDeactivate(self) /\ self.hvac_mode = HVAC_MODE_COOL
    THEN <<CoolerTurnOff>>
    ELSE IF IsTooHotDeactivate(self) /\ self.hvac_mode = HVAC_MODE_HEAT
    THEN <<HeaterTurnOff>>
    ELSE IF IsWithinRangeDeactivate(self) /\ self.hvac_mode = HVAC_MODE_HEAT_COOL
    THEN <<HeaterTurnOff, CoolerTurnOff>>
    ELSE IF time
    THEN IF self.hvac_mode = HVAC_MODE_COOL THEN <<CoolerTurnOn>>
         ELSE IF self.hvac_mode = HVAC_MODE_HEAT THEN <<HeaterTurnOn>>
         ELSE IF self.hvac_mode = HVAC_MODE_HEAT_COOL
         THEN IF IsState(st, heater_entity_id, STATE_ON) THEN <<HeaterTurnOn>>
              ELSE IF IsState(st, cooler_entity_id, STATE_ON) THEN <<CoolerTurnOn>>
              ELSE <<>>
         ELSE <<>>
    ELSE <<>>

\* mutant: the heater branch an `if` of its own instead of an `elif`
WhenToTurnOn_BothBranches(self, st, time) ==
    (IF IsTooHotActivate(self)
        /\ self.hvac_mode \in {HVAC_MODE_COOL, HVAC_MODE_HEAT_COOL}
     THEN <<CoolerTurnOn>> ELSE <<>>)
    \o (IF IsTooColdActivate(self)
           /\ self.hvac_mode \in {HVAC_MODE_HEAT, HVAC_MODE_HEAT_COOL}
        THEN <<HeaterTurnOn>> ELSE <<>>)

\* mutant: the thresholds alone decide, the mode is not looked at
WhenToTurnOn_AnyMode(self, st, time) ==
    IF IsTooHotActivate(self) THEN <<CoolerTurnOn>>
    ELSE IF IsTooColdActivate(self) THEN <<HeaterTurnOn>>
    ELSE <<>>

\* mutant: the heater looked at before the cooler
WhenToTurnOn_HeaterFirst(self, st, time) ==
    IF IsTooColdActivate(self)
       /\ self.hvac_mode \in {HVAC_MODE_HEAT, HVAC_MODE_HEAT_COOL}
    THEN <<HeaterTurnOn>>
    ELSE IF IsTooHotActivate(self)
            /\ self.hvac_mode \in {HVAC_MODE_COOL, HVAC_MODE_HEAT_COOL}
    THEN <<CoolerTurnOn>>
    ELSE <<>>

\* lines 620-643: no actuator is on
WhenToTurnOn(self, st, time) ==
    IF IsTooHotActivate(self)
       /\ self.hvac_mode \in {HVAC_MODE_COOL, HVAC_MODE_HEAT_COOL}
    THEN <<CoolerTurnOn>>
    ELSE IF IsTooColdActivate(self)
            /\ self.hvac_mode \in {HVAC_MODE_HEAT, HVAC_MODE_HEAT_COOL}
    THEN <<HeaterTurnOn>>
    ELSE IF time
    THEN IF self.hvac_mode = HVAC_MODE_COOL THEN <<CoolerTurnOff>>
         ELSE IF self.hvac_mode = HVAC_MODE_HEAT THEN <<HeaterTurnOff>>
         ELSE IF self.hvac_mode = HVAC_MODE_HEAT_COOL
         THEN IF IsState(st, heater_entity_id, STATE_ON) THEN <<HeaterTurnOff>>
              ELSE IF IsState(st, cooler_entity_id, STATE_ON) THEN <<CoolerTurnOff>>
              ELSE <<>>
         ELSE <<>>
    ELSE <<>>

\* mutant: the pass goes on when the controller is not armed
ControlHeating_Unarmed(self, st, time, force) ==
    LET a == Arm(self)
        s == [self EXCEPT !.active = a]
    IN IF self.hvac_mode = HVAC_MODE_OFF
       THEN [active |-> a, cmds |-> <<>>, blocked |-> FALSE]
       ELSE IF GateBlocks(s, st, time, force)
       THEN [active |-> a, cmds |-> <<>>, blocked |-> TRUE]
       ELSE [active |-> a,
             cmds |-> IF IsDeviceActive(st) THEN WhenToTurnOff(s, st, time)
                      ELSE WhenToTurnOn(s, st, time),
             blocked |-> FALSE]

\* _async_control_heating(time, force) on the object `self`, reading the
\* switch states `st`: the new _active, the service calls issued in order,
\* and whether the pass returned at the min_cycle_duration gate
ControlHeating(self, st, time, force) ==
    LET a == Arm(self)
        s == [self EXCEPT !.active = a]
    IN IF ~a \/ self.hvac_mode = HVAC_MODE_OFF
       THEN [active |-> a, cmds |-> <<>>, blocked |-> FALSE]
       ELSE IF GateBlocks(s, st, time, force)
       THEN [active |-> a, cmds |-> <<>>, blocked |-> TRUE]
       ELSE [active |-> a,
             cmds |-> IF IsDeviceActive(st) THEN WhenToTurnOff(s, st, time)
                      ELSE WhenToTurnOn(s, st, time),
             blocked |-> FALSE]

\* ------------------------------------------------------------------ Init
\* __init__ followed by async_added_to_hass, with the setpoints known, no
\* sensor reading yet and both switches off. A controller is configured
\* with a single target or with a (low, high) pair. The single-target
\* controllers all have an away_temp: one without it behaves as one with it
\* whose preset is never set. A (low, high) controller that also has an
\* away_temp is taken without reverse_cycle and min_cycle_duration.
Init ==
    /\ reverse_cycle \in BOOLEAN
    /\ min_cycle_duration \in {None} \cup Durations
    /\ cold_tolerance \in Tolerances
    /\ hot_tolerance \in Tolerances
    /\ \E range \in BOOLEAN :
        /\ away_temp \in (IF range THEN {None} ELSE {}) \cup AwayTemps
        /\ range /\ away_temp # None => ~reverse_cycle /\ min_cycle_duration = None
        /\ IF range
           THEN /\ target_temp = NoAttr
                /\ target_temp_low = 2
                /\ target_temp_high = 4
                /\ hvac_list = {HVAC_MODE_COOL, HVAC_MODE_HEAT, HVAC_MODE_OFF,
                                HVAC_MODE_HEAT_COOL}
                /\ saved_target_temp = away_temp
           ELSE /\ target_temp = 3
                /\ target_temp_low = NoAttr
                /\ target_temp_high = NoAttr
                /\ hvac_list = {HVAC_MODE_COOL, HVAC_MODE_HEAT, HVAC_MODE_OFF}
                /\ saved_target_temp = target_temp
        /\ support_flags =
             IF away_temp # None
             THEN {SUPPORT_TARGET_TEMPERATURE, SUPPORT_PRESET_MODE}
             ELSE IF range
             THEN {SUPPORT_TARGET_TEMPERATURE, SUPPORT_TARGET_TEMPERATURE_RANGE}
             ELSE {SUPPORT_TARGET_TEMPERATURE}
    /\ hvac_mode = HVAC_MODE_OFF
    /\ active = FALSE
    /\ cur_temp = None
    /\ is_away = FALSE
    /\ states = [e \in Entities |-> [state |-> STATE_OFF, held |-> FALSE]]
    /\ calls = [e \in Entities |-> NoCall]
    /\ cmds = <<>>
    /\ tasks = <<>>

\* --------------------------------------------------------------- actions
\* what every handler that runs a control pass does with the pass's result
\* r, the handler having issued the service calls `first` before it
Finish(first, q, r) ==
    /\ active' = r.active
    /\ calls' = Issue(q, r.cmds)
    /\ cmds' = first \o r.cmds

\* mutant: the reading is stored as the target as well
SensorChanged_SetsTarget(v) ==
    /\ cur_temp' = v
    /\ target_temp' = v
    /\ Finish(<<>>, calls,
              ControlHeating([Self EXCEPT !.cur_temp = v, !.target_temp = v],
                             states, FALSE, FALSE))
    /\ UNCHANGED <<config, hvac_mode, saved_target_temp,
                   target_temp_low, target_temp_high, is_away, states>>

\* _async_sensor_changed with a numeric reading
SensorChanged(v) ==
    /\ cur_temp' = v
    /\ Finish(<<>>, calls,
              ControlHeating([Self EXCEPT !.cur_temp = v], states, FALSE, FALSE))
    /\ UNCHANGED <<config, hvac_mode, saved_target_temp, target_temp,
                   target_temp_low, target_temp_high, is_away, states>>

\* _async_sensor_changed with state unavailable or unknown: returns at once
SensorUnavailable ==
    /\ cmds' = <<>>
    /\ UNCHANGED <<config, fields, states, calls>>

\* _async_sensor_changed with a state float() rejects: _async_update_temp
\* logs the ValueError, and the control pass runs all the same
SensorInvalid ==
    /\ Finish(<<>>, calls,
              ControlHeating(Self, states, FALSE, FALSE))
    /\ UNCHANGED <<config, hvac_mode, saved_target_temp, cur_temp, target_temp,
                   target_temp_low, target_temp_high, is_away, states>>

\* a state change of the humidity sensor with a numeric reading: the
\* listener registered for it is _async_sensor_changed, the handler of the
\* temperature sensor
HumidityChanged(h) ==
    /\ cur_temp' = h
    /\ Finish(<<>>, calls,
              ControlHeating([Self EXCEPT !.cur_temp = h], states, FALSE, FALSE))
    /\ UNCHANGED <<config, hvac_mode, saved_target_temp, target_temp,
                   target_temp_low, target_temp_high, is_away, states>>

\* mutant: reverse_cycle not consulted
ModeSwitchCalls_NoReverseCycle(m, st) ==
    IF m = HVAC_MODE_HEAT
    THEN IF IsDeviceActive(st) THEN <<CoolerTurnOff>> ELSE <<>>
    ELSE IF m = HVAC_MODE_COOL
    THEN IF IsDeviceActive(st) THEN <<HeaterTurnOff>> ELSE <<>>
    ELSE IF m = HVAC_MODE_OFF
    THEN IF IsDeviceActive(st) THEN <<HeaterTurnOff, CoolerTurnOff>> ELSE <<>>
    ELSE <<>>

\* async_set_hvac_mode: the service calls made before the control pass
ModeSwitchCalls(m, st) ==
    IF m = HVAC_MODE_HEAT
    THEN IF IsDeviceActive(st) /\ ~reverse_cycle THEN <<CoolerTurnOff>> ELSE <<>>
    ELSE IF m = HVAC_MODE_COOL
    THEN IF IsDeviceActive(st) /\ ~reverse_cycle THEN <<HeaterTurnOff>> ELSE <<>>
    ELSE IF m = HVAC_MODE_OFF
    THEN IF IsDeviceActive(st) THEN <<HeaterTurnOff, CoolerTurnOff>> ELSE <<>>
    ELSE <<>>

\* async_set_hvac_mode(m). While the handler awaits its turn_off the host
\* may run the calls in flight for any set `ran` of the switches before the
\* control pass reads them.
SetHvacMode(m) ==
    LET first == ModeSwitchCalls(m, states)
        q1 == Issue(calls, first)
        yields == first # <<>> /\ m # HVAC_MODE_OFF
    IN /\ \E ran \in SUBSET {e \in Entities : yields /\ q1[e] # NoCall} :
            LET st1 == [e \in Entities |->
                         IF e \in ran THEN RunCall(states, e, q1[e])[e] ELSE states[e]]
                q2 == [e \in Entities |-> IF e \in ran THEN NoCall ELSE q1[e]]
            IN /\ hvac_mode' = m
               /\ states' = st1
               /\ Finish(first, q2,
                         IF m = HVAC_MODE_OFF
                         THEN [active |-> active, cmds |-> <<>>, blocked |-> FALSE]
                         ELSE ControlHeating([Self EXCEPT !.hvac_mode = m],
                                             st1, FALSE, TRUE))
       /\ UNCHANGED <<config, saved_target_temp, cur_temp, target_temp,
                      target_temp_low, target_temp_high, is_away>>

\* async_set_temperature(temperature=, target_temp_low=, target_temp_high=)
SetTemperature(temperature, temp_low, temp_high) ==
    LET range == SUPPORT_TARGET_TEMPERATURE_RANGE \in support_flags
        t == IF ~range /\ temperature # None THEN temperature ELSE target_temp
        lo == IF range /\ temp_low # None THEN temp_low ELSE target_temp_low
        hi == IF range /\ temp_high # None THEN temp_high ELSE target_temp_high
    IN /\ target_temp' = t
       /\ target_temp_low' = lo
       /\ target_temp_high' = hi
       /\ Finish(<<>>, calls,
                 ControlHeating([Self EXCEPT !.target_temp = t,
                                             !.target_temp_low = lo,
                                             !.target_temp_high = hi],
                                states, FALSE, TRUE))
       /\ UNCHANGED <<config, hvac_mode, saved_target_temp, cur_temp, is_away, states>>

\* mutant: entering away does not save the target
SetPresetMode_NoSave(preset_mode) ==
    /\ SUPPORT_PRESET_MODE \in support_flags
    /\ IF preset_mode = PRESET_AWAY /\ ~is_away
       THEN /\ is_away' = TRUE
            /\ target_temp' = away_temp
            /\ Finish(<<>>, calls,
                      ControlHeating([Self EXCEPT !.target_temp = away_temp],
                                     states, FALSE, TRUE))
            /\ UNCHANGED saved_target_temp
       ELSE IF preset_mode = PRESET_NONE /\ is_away
       THEN /\ is_away' = FALSE
            /\ target_temp' = saved_target_temp
            /\ Finish(<<>>, calls,
                      ControlHeating([Self EXCEPT !.target_temp = saved_target_temp],
                                     states, FALSE, TRUE))
            /\ UNCHANGED saved_target_temp
       ELSE /\ cmds' = <<>>
            /\ UNCHANGED <<is_away, saved_target_temp, target_temp, active, calls>>
    /\ UNCHANGED <<config, hvac_mode, cur_temp, target_temp_low, target_temp_high,
                   states>>

\* async_set_preset_mode(preset_mode)
SetPresetMode(preset_mode) ==
    /\ SUPPORT_PRESET_MODE \in support_flags
    /\ IF preset_mode = PRESET_AWAY /\ ~is_away
       THEN IF target_temp = NoAttr
            THEN \* reading self._target_temp raises AttributeError
                 /\ is_away' = TRUE
                 /\ cmds' = <<>>
                 /\ UNCHANGED <<saved_target_temp, target_temp, active, calls>>
            ELSE /\ is_away' = TRUE
                 /\ saved_target_temp' = target_temp
                 /\ target_temp' = away_temp
                 /\ Finish(<<>>, calls,
                           ControlHeating([Self EXCEPT !.target_temp = away_temp],
                                          states, FALSE, TRUE))
       ELSE IF preset_mode = PRESET_NONE /\ is_away
       THEN /\ is_away' = FALSE
            /\ target_temp' = saved_target_temp
            /\ Finish(<<>>, calls,
                      ControlHeating([Self EXCEPT !.target_temp = saved_target_temp],
                                     states, FALSE, TRUE))
            /\ UNCHANGED saved_target_temp
       ELSE /\ cmds' = <<>>
            /\ UNCHANGED <<is_away, saved_target_temp, target_temp, active, calls>>
    /\ UNCHANGED <<config, hvac_mode, cur_temp, target_temp_low, target_temp_high,
                   states>>

\* the keep-alive timer: _async_control_heating(time=now)
KeepAlive ==
    /\ Finish(<<>>, calls, ControlHeating(Self, states, TRUE, FALSE))
    /\ UNCHANGED <<config, hvac_mode, saved_target_temp, cur_temp, target_temp,
                   target_temp_low, target_temp_high, is_away, states>>

\* the host runs the oldest service call in flight for entity e
RunService(e) ==
    /\ calls[e] # NoCall
    /\ states' = RunCall(states, e, calls[e])
    /\ calls' = [calls EXCEPT ![e] = NoCall]
    /\ cmds' = <<>>
    /\ UNCHANGED <<config, fields>>

\* time passes: switch e has now kept its state for min_cycle_duration
TimePasses(e) ==
    /\ min_cycle_duration # None
    /\ ~states[e].held
    /\ states' = [states EXCEPT ![e].held = TRUE]
    /\ cmds' = <<>>
    /\ UNCHANGED <<config, fields, calls>>

Next ==
    \/ \E v \in Temps : SensorChanged(v) /\ UNCHANGED tasks
    \/ SensorUnavailable /\ UNCHANGED tasks
    \/ SensorInvalid /\ UNCHANGED tasks
    \/ \E h \in Humidities : HumidityChanged(h) /\ UNCHANGED tasks
    \/ \E m \in hvac_list : SetHvacMode(m) /\ UNCHANGED tasks
    \/ \E t \in SetTargetTemps \cup {None}, lo \in LowTemps \cup {None},
          hi \in HighTemps \cup {None} :
            /\ {t, lo, hi} # {None}
            /\ SetTemperature(t, lo, hi)
            /\ UNCHANGED tasks
    \/ \E p \in {PRESET_AWAY, PRESET_NONE} : SetPresetMode(p) /\ UNCHANGED tasks
    \/ KeepAlive /\ UNCHANGED tasks
    \/ \E e \in Entities : RunService(e) /\ UNCHANGED tasks
    \/ \E e \in Entities : TimePasses(e) /\ UNCHANGED tasks

Spec == Init /\ [][Next]_vars


\* ------------------------------------------------ handlers step by step
\* The same handlers with their awaits as places where a handler may be
\* suspended and another may run.  A handler is suspended after a service
\* call it awaits (pc "call" inside `async with self._temp_lock`, pc "mode"
\* in async_set_hvac_mode before the pass) or at `async with
\* self._temp_lock` when the lock is taken (pc "lock"); the lock is handed
\* to the waiting handlers in the order they arrived.  The calls issued
\* are followed in `calls`; `cmds` is left as it is.

\* handlers suspended at the same time
MaxTasks == 2

Task(id, pc, time, force, todo) ==
    [id |-> id, pc |-> pc, time |-> time, force |-> force, todo |-> todo]

\* mutant: the lock is never seen as taken
Locked_Never(ts) == FALSE

\* _temp_lock is held: a handler is inside `async with self._temp_lock`
Locked(ts) == \E i \in 1..Len(ts) : ts[i].pc = "call"

\* a handler waits at `async with self._temp_lock`
Waiting(ts) == \E i \in 1..Len(ts) : ts[i].pc = "lock"

Without(ts, i) == SubSeq(ts, 1, i - 1) \o SubSeq(ts, i + 1, Len(ts))

\* ts with the suspended handler t: the handler inside the pass is kept
\* first, then the handlers between their service calls, then the handlers
\* at the lock in the order they arrived
Put(ts, t) ==
    IF t.pc = "call" THEN <<t>> \o ts
    ELSE IF t.pc = "lock" THEN Append(ts, t)
    ELSE LET n == Cardinality({i \in 1..Len(ts) : ts[i].pc # "lock"})
         IN SubSeq(ts, 1, n) \o <<t>> \o SubSeq(ts, n + 1, Len(ts))

\* an identifier for a handler that starts to wait for the lock, one that
\* no handler suspended in ts has; the other handlers go by 0
FreeId(ts) ==
    CHOOSE k \in 1..(Len(ts) + 1) : \A i \in 1..Len(ts) : ts[i].id # k

\* the body of `async with self._temp_lock` run up to its first await on
\* the object `self`, the calls q pending: the pass decides,
\* issues its first call and is suspended there with the rest to issue; a
\* pass that issues nothing returns
RunPass(ts, self, time, force, q) ==
    LET r == ControlHeating(self, states, time, force)
    IN /\ active' = r.active
       /\ IF r.cmds = <<>>
          THEN /\ tasks' = ts
               /\ calls' = q
          ELSE /\ tasks' = Put(ts, Task(0, "call", FALSE, FALSE, Tail(r.cmds)))
               /\ calls' = Issue(q, <<Head(r.cmds)>>)

\* a handler calls _async_control_heating(time, force): it runs the pass at
\* once when the lock is free and nobody waits for it, and waits otherwise
CallPass(ts, self, time, force) ==
    IF Locked(ts) \/ Waiting(ts)
    THEN /\ tasks' = Put(ts, Task(FreeId(ts), "lock", time, force, <<>>))
         /\ UNCHANGED <<active, calls>>
    ELSE RunPass(ts, self, time, force, calls)

\* _async_sensor_changed with a numeric reading
TSensorChanged(v) ==
    /\ Len(tasks) < MaxTasks
    /\ cur_temp' = v
    /\ CallPass(tasks, [Self EXCEPT !.cur_temp = v], FALSE, FALSE)
    /\ UNCHANGED <<config, hvac_mode, saved_target_temp, target_temp,
                   target_temp_low, target_temp_high, is_away, states, cmds>>

\* the keep-alive timer
TKeepAlive ==
    /\ Len(tasks) < MaxTasks
    /\ CallPass(tasks, Self, TRUE, FALSE)
    /\ UNCHANGED <<config, hvac_mode, saved_target_temp, cur_temp, target_temp,
                   target_temp_low, target_temp_high, is_away, states, cmds>>

\* async_set_hvac_mode(m) up to its first await: the mode is assigned, then
\* either the first turn_off is issued and awaited, or the pass is called
TSetHvacMode(m) ==
    LET first == ModeSwitchCalls(m, states)
    IN /\ Len(tasks) < MaxTasks
       /\ hvac_mode' = m
       /\ IF first # <<>>
          THEN /\ tasks' = Put(tasks, Task(0, "mode", FALSE,
                                              m # HVAC_MODE_OFF, Tail(first)))
               /\ calls' = Issue(calls, <<Head(first)>>)
               /\ UNCHANGED active
          ELSE IF m = HVAC_MODE_OFF
          THEN UNCHANGED <<active, calls, tasks>>
          ELSE CallPass(tasks, [Self EXCEPT !.hvac_mode = m],
                        FALSE, TRUE)
       /\ UNCHANGED <<config, saved_target_temp, cur_temp, target_temp,
                      target_temp_low, target_temp_high, is_away, states, cmds>>

\* async_set_temperature: the setpoint is assigned, then the pass is called
TSetTemperature(temperature, temp_low, temp_high) ==
    LET range == SUPPORT_TARGET_TEMPERATURE_RANGE \in support_flags
        t == IF ~range /\ temperature # None THEN temperature ELSE target_temp
        lo == IF range /\ temp_low # None THEN temp_low ELSE target_temp_low
        hi == IF range /\ temp_high # None THEN temp_high ELSE target_temp_high
    IN /\ Len(tasks) < MaxTasks
       /\ target_temp' = t
       /\ target_temp_low' = lo
       /\ target_temp_high' = hi
       /\ CallPass(tasks,
                   [Self EXCEPT !.target_temp = t, !.target_temp_low = lo,
                                !.target_temp_high = hi], FALSE, TRUE)
       /\ UNCHANGED <<config, hvac_mode, saved_target_temp, cur_temp, is_away, states, cmds>>

\* async_set_preset_mode on a single-target controller: entering or
\* leaving away assigns the fields, then the pass is called
TSetPresetMode(preset_mode) ==
    /\ Len(tasks) < MaxTasks
    /\ SUPPORT_PRESET_MODE \in support_flags
    /\ target_temp # NoAttr
    /\ \/ /\ preset_mode = PRESET_AWAY /\ ~is_away
          /\ is_away' = TRUE
          /\ saved_target_temp' = target_temp
          /\ target_temp' = away_temp
       \/ /\ preset_mode = PRESET_NONE /\ is_away
          /\ is_away' = FALSE
          /\ target_temp' = saved_target_temp
          /\ UNCHANGED saved_target_temp
    /\ CallPass(tasks, [Self EXCEPT !.target_temp = target_temp'],
                FALSE, TRUE)
    /\ UNCHANGED <<config, hvac_mode, cur_temp, target_temp_low, target_temp_high,
                   states, cmds>>

\* the suspended handler tasks[i] goes on to its next await or to its end
TaskStep(i) ==
    LET t == tasks[i]
        rest == Without(tasks, i)
    IN /\ IF t.todo # <<>>
          THEN \* the next service call of the branch taken
               /\ tasks' = [tasks EXCEPT ![i].todo = Tail(t.todo)]
               /\ calls' = Issue(calls, <<Head(t.todo)>>)
               /\ UNCHANGED active
          ELSE IF t.pc = "call"
          THEN \* the pass returns and the lock is released
               /\ tasks' = rest
               /\ UNCHANGED <<active, calls>>
          ELSE IF t.pc = "mode"
          THEN \* async_set_hvac_mode after its turn_off
               IF t.force
               THEN CallPass(rest, Self, FALSE, TRUE)
               ELSE /\ tasks' = rest
                    /\ UNCHANGED <<active, calls>>
          ELSE \* pc "lock": the lock is free and this handler is the first
               \* of those waiting for it
               /\ ~Locked(tasks)
               /\ \A j \in 1..(i - 1) : tasks[j].pc # "lock"
               /\ RunPass(rest, Self, t.time, t.force, calls)
       /\ UNCHANGED <<config, hvac_mode, saved_target_temp, cur_temp, target_temp,
                      target_temp_low, target_temp_high, is_away, states, cmds>>

\* readings below and above the target
TaskTemps == {2, 4}

\* the modes asked for: heating and off
TaskModes == {HVAC_MODE_HEAT, HVAC_MODE_OFF}

\* a single-target controller without reverse_cycle, min_cycle_duration
\* and tolerances
InitTasks ==
    /\ Init
    /\ ~reverse_cycle /\ min_cycle_duration = None
    /\ cold_tolerance = 0 /\ hot_tolerance = 0
    /\ HVAC_MODE_HEAT_COOL \notin hvac_list

NextTasks ==
    \/ \E v \in TaskTemps : TSensorChanged(v)
    \/ TKeepAlive
    \/ \E m \in TaskModes : TSetHvacMode(m)
    \/ \E t \in TargetTemps \cup {None}, lo \in LowTemps \cup {None},
          hi \in HighTemps \cup {None} :
            /\ {t, lo, hi} # {None}
            /\ TSetTemperature(t, lo, hi)
    \/ \E p \in {PRESET_AWAY, PRESET_NONE} : TSetPresetMode(p)
    \/ \E i \in 1..Len(tasks) : TaskStep(i)
    \/ \E e \in Entities : RunService(e) /\ UNCHANGED tasks

\* the event loop runs every handler that can go on: the one inside the
\* pass, the first of those at the lock, and one between its service calls
SpecTasks ==
    /\ InitTasks
    /\ [][NextTasks]_vars
    /\ \A p \in {"call", "lock", "mode"} :
          WF_vars(\E i \in 1..Len(tasks) : tasks[i].pc = p /\ TaskStep(i))

\* ---------------------------------------------------------------- steps
\* the steps that run a control pass, by how the pass is invoked: from a
\* sensor event (neither forced nor a tick), from the keep-alive timer, or
\* forced by a mode, setpoint or preset command
SensorPass == (\E v \in Temps : SensorChanged(v)) \/ SensorInvalid
TickPass == KeepAlive
SetpointPass ==
    \E t \in SetTargetTemps \cup {None}, lo \in LowTemps \cup {None},
       hi \in HighTemps \cup {None} : SetTemperature(t, lo, hi)
PresetPass ==
    \E p \in {PRESET_AWAY, PRESET_NONE} :
        /\ SetPresetMode(p)
        /\ \/ p = PRESET_AWAY /\ ~is_away /\ target_temp # NoAttr
           \/ p = PRESET_NONE /\ is_away
ModePass == \E m \in hvac_list \ {HVAC_MODE_OFF} : SetHvacMode(m)
ForcedPass == ModePass \/ SetpointPass \/ PresetPass

\* the last step issued the service call c
Issued(c) == \E i \in 1..Len(cmds) : cmds[i] = c
IsOn(e) == states[e].state = STATE_ON
BothOff == ~IsOn(heater_entity_id) /\ ~IsOn(cooler_entity_id)
\* switch e has kept its on/off state for at least min_cycle_duration
HeldFor(e) == min_cycle_duration = None \/ states[e].held
\* the switch the mode works: the cooler in Cool mode, else the heater
ModeEntity == IF hvac_mode = HVAC_MODE_COOL THEN cooler_entity_id ELSE heater_entity_id
\* the controller holds a single target
SingleTarget == target_temp # NoAttr

\* --------------------------------------------------------------- claims
\* In the formulas below a primed switch state is the state the step's
\* control pass read, and the primed fields are those the pass worked on.

\* C1: a pass that is armed, not stopped by the cycle-duration gate and
\* sees both switches off issues, in Heat mode, heater turn_on exactly when
\* T <= S - cold_tolerance and, in Cool mode, cooler turn_on exactly when
\* T >= S + hot_tolerance; it issues no other turn_on.
C1_ActivateThresholds ==
    [][(/\ active' /\ BothOff' /\ SingleTarget'
        /\ hvac_mode' \in {HVAC_MODE_HEAT, HVAC_MODE_COOL}
        /\ \/ SensorPass /\ HeldFor(ModeEntity)
           \/ TickPass
           \/ ForcedPass)
       => /\ hvac_mode' = HVAC_MODE_HEAT =>
                /\ Issued(HeaterTurnOn)' <=> cur_temp' <= target_temp' - cold_tolerance
                /\ ~Issued(CoolerTurnOn)'
          /\ hvac_mode' = HVAC_MODE_COOL =>
                /\ Issued(CoolerTurnOn)' <=> cur_temp' >= target_temp' + hot_tolerance
                /\ ~Issued(HeaterTurnOn)'
      ]_vars

\* C1 witness: in Heat mode, both switches off, T exactly at S - cold_tolerance
\* with a tolerance of one step, the pass has issued heater turn_on.
C1_Witness ==
    /\ hvac_mode = HVAC_MODE_HEAT /\ active /\ BothOff /\ SingleTarget
    /\ cold_tolerance = 1 /\ hot_tolerance = 0
    /\ cur_temp = target_temp - cold_tolerance
    /\ cmds = <<HeaterTurnOn>>

\* C2: hysteresis. In Heat mode (resp. Cool mode) with a single target S, a
\* non-tick pass (sensor event, setpoint or preset change) whose reading
\* lies strictly between S - cold_tolerance and S + hot_tolerance issues no
\* service call, so neither switch is told to change.
C2_Hysteresis ==
    [][(/\ hvac_mode' \in {HVAC_MODE_HEAT, HVAC_MODE_COOL}
        /\ SingleTarget' /\ cur_temp' # None
        /\ target_temp' - cold_tolerance < cur_temp'
        /\ cur_temp' < target_temp' + hot_tolerance
        /\ SensorPass \/ SetpointPass \/ PresetPass)
       => cmds' = <<>> /\ calls' = calls /\ states' = states
      ]_vars

\* C2 witness: Heat mode, the heater on with nothing in flight, the reading
\* strictly inside the band, and the last step issued nothing.
C2_Witness ==
    /\ hvac_mode = HVAC_MODE_HEAT /\ active /\ SingleTarget
    /\ IsOn(heater_entity_id) /\ calls[heater_entity_id] = NoCall
    /\ cold_tolerance = 1 /\ hot_tolerance = 1
    /\ cur_temp = target_temp
    /\ cmds = <<>>

\* C3 (as claimed): in HeatCool mode with the heater on and
\* T >= high + cold_tolerance, a pass that is forced, a tick, or not stopped
\* by the gate issues heater turn_off.
C3_HeaterOffAboveHigh ==
    [][(/\ active' /\ hvac_mode' = HVAC_MODE_HEAT_COOL
        /\ IsOn(heater_entity_id)' /\ ~IsOn(cooler_entity_id)'
        /\ cur_temp' >= target_temp_high' + cold_tolerance
        /\ \/ SensorPass /\ HeldFor(heater_entity_id)
           \/ TickPass
           \/ ForcedPass)
       => Issued(HeaterTurnOff)'
      ]_vars

\* C4 (as claimed): in HeatCool mode with both switches off, an armed pass
\* not stopped by the gate issues heater turn_on when T <= low - cold_tolerance
\* and cooler turn_on when T >= high + hot_tolerance, and a non-tick pass
\* issues nothing for a T strictly between the two thresholds.
C4_HeatCoolActivate_Claimed ==
    [][(/\ active' /\ BothOff' /\ hvac_mode' = HVAC_MODE_HEAT_COOL
        /\ \/ SensorPass /\ HeldFor(heater_entity_id)
           \/ TickPass
           \/ ForcedPass)
       => /\ cur_temp' <= target_temp_low' - cold_tolerance => Issued(HeaterTurnOn)'
          /\ cur_temp' >= target_temp_high' + hot_tolerance => Issued(CoolerTurnOn)'
          /\ (/\ target_temp_low' - cold_tolerance < cur_temp'
              /\ cur_temp' < target_temp_high' + hot_tolerance
              /\ ~TickPass) => cmds' = <<>>
      ]_vars

\* C4 (amended): as claimed, but the cooler is looked at first: heater
\* turn_on is issued exactly when T <= low - cold_tolerance and not
\* T >= high + hot_tolerance; cooler turn_on exactly when
\* T >= high + hot_tolerance; never both.
C4_HeatCoolActivate ==
    [][(/\ active' /\ BothOff' /\ hvac_mode' = HVAC_MODE_HEAT_COOL
        /\ \/ SensorPass /\ HeldFor(heater_entity_id)
           \/ TickPass
           \/ ForcedPass)
       => /\ Issued(CoolerTurnOn)' <=> cur_temp' >= target_temp_high' + hot_tolerance
          /\ Issued(HeaterTurnOn)' <=>
                /\ cur_temp' <= target_temp_low' - cold_tolerance
                /\ ~(cur_temp' >= target_temp_high' + hot_tolerance)
          /\ (/\ target_temp_low' - cold_tolerance < cur_temp'
              /\ cur_temp' < target_temp_high' + hot_tolerance
              /\ ~TickPass) => cmds' = <<>>
      ]_vars

\* C4 witness: HeatCool mode, both switches off, low < high, T at
\* low - cold_tolerance, and the pass has issued heater turn_on.
C4_Witness ==
    /\ hvac_mode = HVAC_MODE_HEAT_COOL /\ active /\ BothOff
    /\ target_temp_low < target_temp_high
    /\ cold_tolerance = 1 /\ hot_tolerance = 1
    /\ cur_temp = target_temp_low - cold_tolerance
    /\ cmds = <<HeaterTurnOn>>

\* C5: with min_cycle_duration configured, in Heat mode (resp. Cool mode) a
\* pass that is neither forced nor a tick issues nothing while the heater
\* (resp. cooler) has held its state for less than min_cycle_duration; a
\* forced pass in the same situation decides by the thresholds alone.
C5_CycleGate ==
    [][(/\ min_cycle_duration # None
        /\ hvac_mode' \in {HVAC_MODE_HEAT, HVAC_MODE_COOL}
        /\ ~HeldFor(ModeEntity)')
       => /\ SensorPass => cmds' = <<>> /\ calls' = calls
          /\ (ForcedPass /\ active' /\ BothOff' /\ SingleTarget') =>
                /\ hvac_mode' = HVAC_MODE_HEAT =>
                     (Issued(HeaterTurnOn)' <=>
                        cur_temp' <= target_temp' - cold_tolerance)
                /\ hvac_mode' = HVAC_MODE_COOL =>
                     (Issued(CoolerTurnOn)' <=>
                        cur_temp' >= target_temp' + hot_tolerance)
      ]_vars

\* C5 witness: Heat mode, gate configured, the heater off for less than
\* min_cycle_duration, nothing in flight, T at the turn-on threshold, and
\* the last step issued nothing.
C5_Witness ==
    /\ min_cycle_duration # None /\ hvac_mode = HVAC_MODE_HEAT
    /\ active /\ BothOff /\ SingleTarget
    /\ ~states[heater_entity_id].held
    /\ calls = [e \in Entities |-> NoCall]
    /\ cur_temp <= target_temp - cold_tolerance
    /\ cmds = <<>>

\* C6 (as claimed): in HeatCool mode with min_cycle_duration configured the
\* gate of a pass that is neither forced nor a tick looks at the switch
\* whose state would change: with the heater off for min_cycle_duration or
\* more, a cooler that is on and has been on for
\* min_cycle_duration is told to turn off once T is inside the comfort band,
\* and a cooler that changed less than min_cycle_duration ago gets no call.
C6_PerActuatorGate ==
    [][(/\ min_cycle_duration # None
        /\ active' /\ hvac_mode' = HVAC_MODE_HEAT_COOL
        /\ IsOn(cooler_entity_id)' /\ ~IsOn(heater_entity_id)'
        /\ HeldFor(heater_entity_id)'
        /\ SensorPass)
       => /\ (/\ HeldFor(cooler_entity_id)'
              /\ target_temp_low' + hot_tolerance <= cur_temp'
              /\ cur_temp' <= target_temp_high' - cold_tolerance)
                => Issued(CoolerTurnOff)'
          /\ ~HeldFor(cooler_entity_id)'
                => ~Issued(CoolerTurnOff)' /\ ~Issued(CoolerTurnOn)'
      ]_vars

\* C7: a switch from Heat to Cool while the heater is on issues heater
\* turn_off before any cooler turn_on when reverse_cycle is false, and no
\* heater turn_off when reverse_cycle is true; the same from Cool to Heat
\* with the cooler.
C7_ModeSwitch ==
    [][/\ (/\ hvac_mode = HVAC_MODE_HEAT /\ IsOn(heater_entity_id)
           /\ SetHvacMode(HVAC_MODE_COOL))
          => IF reverse_cycle
             THEN ~Issued(HeaterTurnOff)'
             ELSE /\ Len(cmds') >= 1
                  /\ cmds'[1] = HeaterTurnOff
       /\ (/\ hvac_mode = HVAC_MODE_COOL /\ IsOn(cooler_entity_id)
           /\ SetHvacMode(HVAC_MODE_HEAT))
          => IF reverse_cycle
             THEN ~Issued(CoolerTurnOff)'
             ELSE /\ Len(cmds') >= 1
                  /\ cmds'[1] = CoolerTurnOff
      ]_vars

\* C7 witness: the switch to Cool has issued heater turn_off and then,
\* the heater having gone off meanwhile, cooler turn_on.
C7_Witness ==
    /\ hvac_mode = HVAC_MODE_COOL /\ ~reverse_cycle
    /\ cmds = <<HeaterTurnOff, CoolerTurnOn>>

\* the last service call issued to switch e was turn_on
CommandedOn(e) ==
    IF calls[e] # NoCall THEN calls[e] = SERVICE_TURN_ON ELSE IsOn(e)

\* the window of a Heat <-> Cool switch without reverse_cycle, read at its
\* widest: the mode is Heat or Cool and the switch of the other mode is on
\* or has a call that has not run yet
SwitchWindow ==
    /\ ~reverse_cycle
    /\ \/ /\ hvac_mode = HVAC_MODE_COOL
          /\ IsOn(heater_entity_id) \/ calls[heater_entity_id] # NoCall
       \/ /\ hvac_mode = HVAC_MODE_HEAT
          /\ IsOn(cooler_entity_id) \/ calls[cooler_entity_id] # NoCall

\* C8 (as claimed): in every reachable state at most one of heater and
\* cooler is commanded on (the last call issued to it was turn_on), but for
\* the window of a Heat <-> Cool switch without reverse_cycle.
C8_AtMostOneCommandedOn ==
    SwitchWindow
    \/ ~(CommandedOn(heater_entity_id) /\ CommandedOn(cooler_entity_id))

\* C9: no step (control pass, or mode, setpoint or preset command) issues
\* turn_on to both the heater and the cooler.
C9_NeverBothTurnOn ==
    ~(Issued(HeaterTurnOn) /\ Issued(CoolerTurnOn))

\* C9 witness: HeatCool mode with T at or beyond both turn-on thresholds
\* (low = high, no tolerance): the pass has issued cooler turn_on alone.
C9_Witness ==
    /\ hvac_mode = HVAC_MODE_HEAT_COOL /\ active /\ BothOff
    /\ cur_temp <= target_temp_low - cold_tolerance
    /\ cur_temp >= target_temp_high + hot_tolerance
    /\ cmds = <<CoolerTurnOn>>

\* C10 (as claimed): a control pass (sensor, tick or forced) that runs while
\* the mode is Off and a switch is on issues turn_off to both switches.
C10_OffAlwaysWins ==
    [][(/\ hvac_mode' = HVAC_MODE_OFF
        /\ IsOn(heater_entity_id)' \/ IsOn(cooler_entity_id)'
        /\ SensorPass \/ TickPass \/ SetpointPass \/ PresetPass)
       => Issued(HeaterTurnOff)' /\ Issued(CoolerTurnOff)'
      ]_vars

\* the switch states once the host has run the service calls cs in order
RECURSIVE AfterCalls(_, _)
AfterCalls(st, cs) ==
    IF cs = <<>> THEN st
    ELSE AfterCalls(RunCall(st, Head(cs).entity, Head(cs).service), Tail(cs))

\* the calls issued by a second pass without tick that follows a first one
\* from the current state, nothing changed in between but the switches,
\* which have taken the state the first pass commanded
SecondPassCalls(force) ==
    LET r1 == ControlHeating(Self, states, FALSE, force)
        st1 == AfterCalls(states, r1.cmds)
    IN ControlHeating([Self EXCEPT !.active = r1.active], st1, FALSE, force).cmds

\* C11 (as claimed): with no service call in flight, two passes without tick
\* in succession, mode, setpoints, tolerances and temperature unchanged and
\* the switches in the state the first pass commanded: the second pass
\* issues no call, whatever the mode and the tolerances (0 included).
C11_Idempotent ==
    (\A e \in Entities : calls[e] = NoCall)
        => \A force \in BOOLEAN : SecondPassCalls(force) = <<>>

\* the controller was configured with a single target, not with (low, high)
SingleTargetController == HVAC_MODE_HEAT_COOL \notin hvac_list

C13_AwayTarget ==
    (SingleTargetController /\ is_away) => target_temp = away_temp

Known(x) == x \notin {None, NoAttr}

\* C14: no step sets active back to false, and a step that sets it to true
\* ends in a state where the current temperature and the configured
\* setpoints (the single target, or low and high) are known.
C14_ActiveMonotonic ==
    [][/\ active => active'
       /\ (~active /\ active')
            => /\ Known(cur_temp')
               /\ IF SingleTargetController
                  THEN Known(target_temp')
                  ELSE Known(target_temp_low') /\ Known(target_temp_high')
      ]_vars

\* C14 witness: armed by a sensor reading while the mode is Off, and still
\* armed after a mode command and a pass that turned the heater on
C14_Witness ==
    /\ active /\ Known(cur_temp)
    /\ hvac_mode = HVAC_MODE_HEAT /\ IsOn(heater_entity_id)

setpoints == <<target_temp, target_temp_low, target_temp_high>>

\* C15: a step that runs a control pass from a sensor event, a tick or a
\* mode command leaves the setpoints, the saved target and the away flag as
\* they were, and a step that changes a setpoint is a set-temperature or a
\* set-preset command.
C15_PassKeepsSetpoints ==
    [][/\ <<setpoints, saved_target_temp, is_away>>'
              # <<setpoints, saved_target_temp, is_away>>
            => ~(SensorPass \/ TickPass \/ ModePass)
       /\ setpoints' # setpoints
            => \/ SetpointPass
               \/ \E p \in {PRESET_AWAY, PRESET_NONE} : SetPresetMode(p)
      ]_vars

\* C15 witness: the target is 4, as a command set it, the saved target and
\* the away flag are those of the start, and a pass has turned the heater on.
C15_Witness ==
    /\ hvac_mode = HVAC_MODE_HEAT /\ active /\ ~is_away
    /\ target_temp = 4 /\ saved_target_temp = 3
    /\ cur_temp = 4 /\ cold_tolerance = 0
    /\ cmds = <<HeaterTurnOn>>

\* a step that runs a control pass, however invoked
AnyPass == SensorPass \/ TickPass \/ ForcedPass

\* C16: a pass that leaves the controller un-armed issues no service call,
\* and a pass that runs with the current temperature and the configured
\* setpoints known leaves the controller armed.
C16_UnarmedSilent ==
    [][(~active' /\ AnyPass)
         => /\ cmds' = <<>> /\ calls' = calls
            /\ ~(/\ Known(cur_temp')
                 /\ IF SingleTargetController
                    THEN Known(target_temp')
                    ELSE Known(target_temp_low') /\ Known(target_temp_high'))
      ]_vars

\* C16 witness: no reading yet, the mode set to Heat by a command whose
\* forced pass has run un-armed and issued nothing.
C16_Witness ==
    /\ ~active /\ cur_temp = None
    /\ hvac_mode = HVAC_MODE_HEAT
    /\ cmds = <<>> /\ BothOff

\* C17 (as claimed): a sensor event whose state is unavailable, unknown or
\* not a number leaves the recorded temperature and the armed flag as they
\* were and causes no service call.
C17_BadReadingIgnored ==
    [][(SensorUnavailable \/ SensorInvalid)
         => /\ cur_temp' = cur_temp /\ active' = active
            /\ cmds' = <<>> /\ calls' = calls
      ]_vars

\* C18 (as claimed): a humidity-sensor event leaves the recorded current
\* temperature as it was.
C18_HumidityKeepsTemp ==
    [][(\E h \in Humidities : HumidityChanged(h)) => cur_temp' = cur_temp]_vars

\* the turn-on threshold of switch e holds in the mode in force
ActivateFires(e) ==
    IF e = heater_entity_id
    THEN /\ hvac_mode \in {HVAC_MODE_HEAT, HVAC_MODE_HEAT_COOL}
         /\ IsTooColdActivate(Self)
    ELSE /\ hvac_mode \in {HVAC_MODE_COOL, HVAC_MODE_HEAT_COOL}
         /\ IsTooHotActivate(Self)

\* C19 (as claimed): a keep-alive tick issues turn_on to a switch the
\* status shows off only when both switches are off and the turn-on
\* threshold of that switch fires; otherwise its turn_on goes to a switch
\* that is on.
C19_TickRefresh ==
    [][TickPass =>
         \A e \in Entities :
            (Issued(Call(e, SERVICE_TURN_ON))' /\ ~IsOn(e))
                => BothOff /\ ActivateFires(e)
      ]_vars

\* the value of a setpoint after a command that carries x for it
Updated(x, old) == IF x # None THEN x ELSE old

\* C20 (as claimed): set_temperature on a controller configured with
\* (low, high) stores the low and high it carries and leaves the single
\* target as it was (absent); on a single-target controller it stores the
\* temperature it carries and leaves low and high as they were.
C20_SetTemperatureByKind ==
    [][\A t \in SetTargetTemps \cup {None}, lo \in LowTemps \cup {None},
          hi \in HighTemps \cup {None} :
         ({t, lo, hi} # {None} /\ SetTemperature(t, lo, hi))
           => IF SingleTargetController
              THEN /\ target_temp' = Updated(t, target_temp)
                   /\ UNCHANGED <<target_temp_low, target_temp_high>>
              ELSE /\ target_temp_low' = Updated(lo, target_temp_low)
                   /\ target_temp_high' = Updated(hi, target_temp_high)
                   /\ UNCHANGED target_temp
      ]_vars

\* a pass without tick that the min_cycle_duration gate lets through: a
\* forced one, or one from a sensor event with the gate open
OpenPass ==
    \/ ForcedPass
    \/ ~GateBlocks(Self, states, FALSE, FALSE)' /\ SensorPass

C23_DeactivateThresholds ==
    [][(/\ active' /\ SingleTarget'
        /\ hvac_mode' \in {HVAC_MODE_HEAT, HVAC_MODE_COOL}
        /\ IsOn(ModeEntity)'
        /\ OpenPass \/ TickPass)
       => /\ hvac_mode' = HVAC_MODE_HEAT
               => (Issued(HeaterTurnOff)'
                     <=> cur_temp' >= target_temp' + hot_tolerance)
          /\ hvac_mode' = HVAC_MODE_COOL
               => (Issued(CoolerTurnOff)'
                     <=> cur_temp' <= target_temp' - cold_tolerance)
      ]_vars

\* C23 witness: Heat mode, the heater on, T just at S + hot_tolerance with
\* a tolerance of 1, and the heater told to turn off.
C23_Witness ==
    /\ hvac_mode = HVAC_MODE_HEAT /\ active /\ SingleTarget
    /\ IsOn(heater_entity_id)
    /\ hot_tolerance = 1
    /\ cur_temp = target_temp + hot_tolerance
    /\ cmds = <<HeaterTurnOff>>

\* C25: the calls a handler has issued hold no cooler turn_on when the mode
\* in force is Heat, no heater turn_on when it is Cool, and no turn_on when
\* it is Off.
C25_TurnOnPermitted ==
    /\ Issued(CoolerTurnOn) => hvac_mode \in {HVAC_MODE_COOL, HVAC_MODE_HEAT_COOL}
    /\ Issued(HeaterTurnOn) => hvac_mode \in {HVAC_MODE_HEAT, HVAC_MODE_HEAT_COOL}

\* C25 witness: Cool mode with the heater on and the cooler off, and a
\* handler has issued turn_on to the cooler, the switch of the mode.
C25_Witness ==
    /\ hvac_mode = HVAC_MODE_COOL /\ active
    /\ IsOn(heater_entity_id) /\ ~IsOn(cooler_entity_id)
    /\ cmds = <<CoolerTurnOn>>

\* the handlers inside `async with self._temp_lock`
InPass == {i \in 1..Len(tasks) : tasks[i].pc = "call"}

\* handler k waits for the lock
WaitsForLock(k) == \E i \in 1..Len(tasks) : tasks[i].id = k /\ tasks[i].pc = "lock"

\* C24: at most one handler is inside the pass at a time, a handler that
\* called the pass while another was suspended in it staying at the lock,
\* and every handler that waits for the lock gets to run its pass.
C24_OnePassAtATime ==
    /\ [](Cardinality(InPass) <= 1)
    /\ \A k \in 1..MaxTasks : WaitsForLock(k) ~> ~WaitsForLock(k)

\* C24 witness: one handler suspended in its pass, awaiting a service call,
\* and another waiting for the lock.
C24_Witness ==
    /\ InPass # {}
    /\ \E k \in 1..MaxTasks : WaitsForLock(k)
\* C21: while a control pass is in progress, suspended on a service call
\* included, no handler changes the mode, the setpoints or the away flag.
\* The handlers assign these fields before they call
\* _async_control_heating, outside _temp_lock, so the statement fails.
C21_NoMutationDuringPass ==
    [][InPass # {} => UNCHANGED <<hvac_mode, setpoints, is_away>>]_vars

\* C26: in Off with no service call in flight both switches are off.  A
\* turn_on still in flight when set_hvac_mode(Off) reads the switches is
\* not followed by any turn_off, so the statement fails.
C26_OffMeansOff ==
    (hvac_mode = HVAC_MODE_OFF /\ \A e \in Entities : calls[e] = NoCall)
        => BothOff

====
